---- MODULE Spec2Model ----
(***************************************************************************)
(* View-only mode plugin (src/src/widgets/index.tsx).                      *)
(*                                                                         *)
(* The module state of the plugin (isViewOnlyMode, styleElement,           *)
(* indicatorElement, keydownHandler), the part of the document it acts on  *)
(* (the style blocks in <head>, the indicator elements and the marker      *)
(* class of <body>, the contenteditable attributes of the host's elements, *)
(* the capture-phase listeners registered on the document), and the        *)
(* keyboard policy of preventEditingShortcuts.                             *)
(***************************************************************************)
EXTENDS Naturals, Sequences, FiniteSets, TLC

\* Bounds of the model.
NumElements == 3       \* host elements in the document
MaxEnables == 3        \* activations (each creates one blockMouseEvents closure)
NumRendered == 1       \* elements the host re-renders while the plugin runs

VARIABLES
    isViewOnlyMode,    \* let isViewOnlyMode                      (boolean)
    styleElement,      \* let styleElement: non-null?             (boolean)
    indicatorElement,  \* let indicatorElement: non-null?         (boolean)
    keydownHandler,    \* let keydownHandler: "null" or the handler's name
    headStyles,        \* number of #view-only-mode-styles blocks in document.head
    bodyIndicators,    \* number of .view-only-indicator elements in document.body
    bodyClass,         \* document.body.classList contains 'view-only-mode'
    dom,               \* host element -> [ce, orig]: its contenteditable and
                       \* data-original-contenteditable attributes
    listeners,         \* capture-phase listeners on the document: [type, fn, id]
    closures,          \* blockMouseEvents closures created so far
    expected,          \* history: fold of the calls made (enable/disable/toggle)
    preDom,            \* history: dom as it was when the mode was last activated
    last,              \* history: the last call or delivered event and its outcome
    settingRemember,   \* the host's settings store: 'remember-state'
    storage,           \* localStorage 'viewonly-mode-state': a value or "absent"
    phase,             \* "loading" (onActivate before its restore), "loaded",
                       \* "unloaded" (after onDeactivate)
    wIsViewOnly,       \* ViewOnlyWidget: useState isViewOnly
    wRememberState,    \* ViewOnlyWidget: useState rememberState
    wLoaded,           \* ViewOnlyWidget: loadSettings has completed
    steps,             \* history: the statements the last stepwise call completed
    held               \* nodes the host has taken out of the document and keeps:
                       \* slot -> [ce, orig], or NoNode

progVars == <<isViewOnlyMode, styleElement, indicatorElement, keydownHandler,
              headStyles, bodyIndicators, bodyClass, dom, listeners, closures>>
vars == <<isViewOnlyMode, styleElement, indicatorElement, keydownHandler,
          headStyles, bodyIndicators, bodyClass, dom, listeners, closures,
          expected, preDom, last,
          settingRemember, storage, phase, wIsViewOnly, wRememberState, wLoaded,
          steps, held>>

\* The host's stores, the plugin's lifecycle and the widget's state.
hostVars == <<settingRemember, storage, phase, wIsViewOnly, wRememberState,
              wLoaded, steps, held>>

Elements == 1..NumElements

\* No node: the host keeps nothing for a slot.
NoNode == [ce |-> "absent", orig |-> "none"]

\* Values of the contenteditable attribute of a host element.
CEValues == {"true", "false", "absent", "plaintext-only"}

KeyboardEventTypes == {"keydown", "keypress", "input"}
MouseEventTypes == {"mousedown", "mouseup", "click", "dblclick"}

-----------------------------------------------------------------------------
\* document.addEventListener(type, fn, {capture: true}): the registry is a set,
\* a second registration of the same (type, callback, capture) is discarded.
addEventListener(ls, type, fn, id) == ls \cup {[type |-> type, fn |-> fn, id |-> id]}

\* document.removeEventListener(type, fn, {capture: true})
removeEventListener(ls, type, fn, id) == ls \ {[type |-> type, fn |-> fn, id |-> id]}

injectViewOnlyStyles ==
    IF ~styleElement
    THEN /\ styleElement' = TRUE
         /\ headStyles' = headStyles + 1
    ELSE UNCHANGED <<styleElement, headStyles>>

removeViewOnlyStyles ==
    IF styleElement
    THEN /\ headStyles' = headStyles - 1
         /\ styleElement' = FALSE
    ELSE UNCHANGED <<styleElement, headStyles>>

createViewOnlyIndicator ==
    IF indicatorElement
    THEN UNCHANGED <<indicatorElement, bodyIndicators>>
    ELSE /\ indicatorElement' = TRUE
         /\ bodyIndicators' = bodyIndicators + 1

\* Mutant: the handle is dropped without removing the element from the body.
removeViewOnlyIndicator_keepsElement ==
    IF indicatorElement
    THEN /\ indicatorElement' = FALSE
         /\ UNCHANGED bodyIndicators
    ELSE UNCHANGED <<indicatorElement, bodyIndicators>>

removeViewOnlyIndicator ==
    IF indicatorElement
    THEN /\ bodyIndicators' = bodyIndicators - 1
         /\ indicatorElement' = FALSE
    ELSE UNCHANGED <<indicatorElement, bodyIndicators>>

\* querySelectorAll('[contenteditable="true"]').forEach: mark, then set "false".
disableContentEditable ==
    dom' = [e \in Elements |->
              IF dom[e].ce = "true"
              THEN [ce |-> "false", orig |-> "true"]
              ELSE dom[e]]

\* Mutant: a blanket re-enable of every element found disabled.
enableContentEditable_blanket ==
    dom' = [e \in Elements |->
              IF dom[e].orig = "true" \/ dom[e].ce = "false"
              THEN [ce |-> "true", orig |-> "absent"]
              ELSE dom[e]]

\* querySelectorAll('[data-original-contenteditable="true"]').forEach:
\* set "true", then remove the marker.
enableContentEditable ==
    dom' = [e \in Elements |->
              IF dom[e].orig = "true"
              THEN [ce |-> "true", orig |-> "absent"]
              ELSE dom[e]]

-----------------------------------------------------------------------------
\* The keyboard policy.  An event is [type, hasKey, key, ctrlKey, shiftKey,
\* altKey, metaKey]; an 'input' event is an InputEvent, which has no key field
\* and no modifier fields (hasKey = FALSE, the modifiers read as falsy).

\* Array.prototype.some(Boolean)
some(conds) == \E i \in DOMAIN conds : conds[i]

\* String.prototype.startsWith
startsWith(s, prefix) ==
    Len(s) >= Len(prefix) /\ SubSeq(s, 1, Len(prefix)) = prefix

\* Mutant: the page-navigation entry is missing from the allow-list.
allowedShortcuts_noPageKeys(event) ==
    << event.ctrlKey /\ event.key = "c",
       event.ctrlKey /\ event.key = "a",
       event.ctrlKey /\ event.key = "f",
       event.ctrlKey /\ event.key = "h",
       event.key = "F3",
       event.key = "Escape",
       startsWith(event.key, "Arrow"),
       event.key = "Home" \/ event.key = "End",
       event.ctrlKey /\ (event.key = "Home" \/ event.key = "End") >>

allowedShortcuts(event) ==
    << event.ctrlKey /\ event.key = "c",                          \* Copy
       event.ctrlKey /\ event.key = "a",                          \* Select All
       event.ctrlKey /\ event.key = "f",                          \* Find
       event.ctrlKey /\ event.key = "h",                          \* Find and Replace
       event.key = "F3",                                          \* Find Next
       event.key = "Escape",                                      \* Escape
       startsWith(event.key, "Arrow"),                            \* Arrow keys
       event.key = "Home" \/ event.key = "End",                   \* Home/End
       event.key = "PageUp" \/ event.key = "PageDown",            \* Page navigation
       event.ctrlKey /\ (event.key = "Home" \/ event.key = "End") \* Ctrl+Home/End
    >>

blockingKeys == {"Backspace", "Delete", "Enter", "Tab", "Insert", "Space"}

blockingShortcuts(event) ==
    << event.ctrlKey /\ (event.key = "z" \/ event.key = "y"),     \* Undo/Redo
       event.ctrlKey /\ (event.key = "x" \/ event.key = "v"),     \* Cut/Paste
       event.ctrlKey /\ event.shiftKey /\ event.key = "Z",        \* Redo alternative
       event.altKey,                                              \* Alt combinations
       event.metaKey /\ event.key # "c" /\ event.key # "a" /\ event.key # "f" >>

isTyping(event) == Len(event.key) = 1 /\ ~event.ctrlKey /\ ~event.metaKey

\* The condition of the final if of the handler.
blocks(event) ==
    isTyping(event) \/ event.key \in blockingKeys \/ some(blockingShortcuts(event))

\* Mutant: the deny conditions are tested before the allow-list.
preventEditingShortcuts_denyFirst(event) ==
    IF ~event.hasKey THEN "threw"
    ELSE IF blocks(event) THEN "blocked"
    ELSE IF some(allowedShortcuts(event)) THEN "allowed"
    ELSE "passed"

\* The handler's outcome for one event:
\*   "threw"   event.key is undefined, event.key.startsWith raises a TypeError
\*             while the allow-list array is being built;
\*   "allowed" the early return of the allow-list;
\*   "blocked" preventDefault, stopPropagation and stopImmediatePropagation;
\*   "passed"  the handler falls off its end without touching the event.
preventEditingShortcuts(event) ==
    IF ~event.hasKey THEN "threw"
    ELSE IF some(allowedShortcuts(event)) THEN "allowed"
    ELSE IF blocks(event) THEN "blocked"
    ELSE "passed"

-----------------------------------------------------------------------------
\* The Mode Controller transitions, as actions on the program's variables.

\* The statements of enableViewOnlyMode after its guard.
enableSteps ==
    /\ isViewOnlyMode' = TRUE
    /\ injectViewOnlyStyles
    /\ bodyClass' = TRUE
    /\ createViewOnlyIndicator
    /\ disableContentEditable
    /\ keydownHandler' = "preventEditingShortcuts"
    /\ closures' = closures + 1
    /\ LET kd == addEventListener(listeners, "keydown", "preventEditingShortcuts", 0)
           kp == addEventListener(kd, "keypress", "preventEditingShortcuts", 0)
           ki == addEventListener(kp, "input", "preventEditingShortcuts", 0)
           \* const blockMouseEvents = (event) => ... : a new function object
           md == addEventListener(ki, "mousedown", "blockMouseEvents", closures + 1)
           mu == addEventListener(md, "mouseup", "blockMouseEvents", closures + 1)
           mc == addEventListener(mu, "click", "blockMouseEvents", closures + 1)
           dc == addEventListener(mc, "dblclick", "blockMouseEvents", closures + 1)
       IN  listeners' = dc

\* Mutant: the early return on an active mode is missing.
enableViewOnlyMode_noGuard == enableSteps

enableViewOnlyMode ==
    IF isViewOnlyMode
    THEN UNCHANGED progVars
    ELSE enableSteps

\* Mutant: the keyboard listeners are removed without the capture flag, which
\* matches no registered listener.
disableViewOnlyMode_noCapture ==
    IF ~isViewOnlyMode
    THEN UNCHANGED progVars
    ELSE /\ isViewOnlyMode' = FALSE
         /\ removeViewOnlyStyles
         /\ removeViewOnlyIndicator
         /\ bodyClass' = FALSE
         /\ enableContentEditable
         /\ keydownHandler' = "null"
         /\ UNCHANGED <<listeners, closures>>

disableViewOnlyMode ==
    IF ~isViewOnlyMode
    THEN UNCHANGED progVars
    ELSE /\ isViewOnlyMode' = FALSE
         /\ removeViewOnlyStyles
         /\ removeViewOnlyIndicator
         /\ bodyClass' = FALSE
         /\ enableContentEditable
         /\ IF keydownHandler # "null"
            THEN /\ LET kd == removeEventListener(listeners, "keydown", keydownHandler, 0)
                        kp == removeEventListener(kd, "keypress", keydownHandler, 0)
                        ki == removeEventListener(kp, "input", keydownHandler, 0)
                    IN  listeners' = ki
                 /\ keydownHandler' = "null"
            ELSE UNCHANGED <<listeners, keydownHandler>>
         \* the mouse listeners are left registered
         /\ UNCHANGED closures

\* Mutant: the two branches are exchanged.
toggleViewOnlyMode_swapped ==
    IF isViewOnlyMode
    THEN enableViewOnlyMode
    ELSE disableViewOnlyMode

toggleViewOnlyMode ==
    IF isViewOnlyMode
    THEN disableViewOnlyMode
    ELSE enableViewOnlyMode

\* window.isViewOnlyModeActive
isViewOnlyModeActive == isViewOnlyMode

-----------------------------------------------------------------------------
\* Events delivered to the document.

\* Values of KeyboardEvent.key the model delivers: the keys the handler names,
\* and for each class of key it does not name (a letter, a capital letter, a
\* digit, the space bar, a function key) one or two of its members.
Keys ==
    {"c", "a", "f", "h", "z", "y", "x", "v", "b", "Z", "1", " ",
     "F3", "F5", "Escape", "ArrowLeft", "ArrowDown", "Home", "End",
     "PageUp", "PageDown", "Backspace", "Delete", "Enter", "Tab", "Insert"}

KeyEvents ==
    [type : KeyboardEventTypes \ {"input"}, hasKey : {TRUE}, key : Keys,
     ctrlKey : BOOLEAN, shiftKey : BOOLEAN, altKey : BOOLEAN, metaKey : BOOLEAN]

InputEvents ==
    [type : {"input"}, hasKey : {FALSE}, key : {""},
     ctrlKey : {FALSE}, shiftKey : {FALSE}, altKey : {FALSE}, metaKey : {FALSE}]

NoEvent ==
    [type |-> "none", hasKey |-> FALSE, key |-> "",
     ctrlKey |-> FALSE, shiftKey |-> FALSE, altKey |-> FALSE, metaKey |-> FALSE]

\* What the document's capture-phase keyboard listener does with an event of
\* its type: nothing is registered ("unhandled"), or the handler's outcome.
dispatchKeyboard(event) ==
    IF [type |-> event.type, fn |-> "preventEditingShortcuts", id |-> 0] \in listeners
    THEN preventEditingShortcuts(event)
    ELSE "unhandled"

-----------------------------------------------------------------------------
\* The module state after the module is evaluated, in a document the plugin
\* has not touched.
ModuleLoaded ==
    /\ isViewOnlyMode = FALSE
    /\ styleElement = FALSE
    /\ indicatorElement = FALSE
    /\ keydownHandler = "null"
    /\ headStyles = 0
    /\ bodyIndicators = 0
    /\ bodyClass = FALSE
    /\ listeners = {}
    /\ closures = 0
    /\ expected = FALSE
    /\ last = [op |-> "none", wasActive |-> FALSE, ev |-> NoEvent, outcome |-> "none"]
    /\ steps = << >>

\* The widget's useState initial values, before loadSettings has completed.
WidgetMounted ==
    /\ wIsViewOnly = FALSE
    /\ wRememberState = FALSE
    /\ wLoaded = FALSE

\* The state after the module is loaded, for every document the host may show;
\* the preference has its default and nothing is persisted.
Init ==
    /\ ModuleLoaded
    /\ WidgetMounted
    /\ held = [e \in Elements |-> NoNode]
    /\ dom \in [Elements -> [ce : CEValues, orig : {"absent"}]]
    /\ preDom = dom
    /\ settingRemember = FALSE
    /\ storage = "absent"
    /\ phase = "loaded"

\* A call of enableViewOnlyMode() (load-time restore, enable-view-only command).
Enable ==
    /\ isViewOnlyMode \/ closures < MaxEnables
    /\ enableViewOnlyMode
    /\ expected' = TRUE
    /\ preDom' = IF isViewOnlyMode THEN preDom ELSE dom
    /\ last' = [op |-> "enable", wasActive |-> isViewOnlyMode,
                ev |-> NoEvent, outcome |-> "none"]
    /\ UNCHANGED hostVars

\* A call of disableViewOnlyMode() (onDeactivate, disable-view-only command).
Disable ==
    /\ disableViewOnlyMode
    /\ expected' = FALSE
    /\ UNCHANGED preDom
    /\ last' = [op |-> "disable", wasActive |-> isViewOnlyMode,
                ev |-> NoEvent, outcome |-> "none"]
    /\ UNCHANGED hostVars

\* A call of window.toggleViewOnlyMode() (widget button, toggle-view-only command).
Toggle ==
    /\ isViewOnlyMode \/ closures < MaxEnables
    /\ toggleViewOnlyMode
    /\ expected' = ~expected
    /\ preDom' = IF isViewOnlyMode THEN preDom ELSE dom
    /\ last' = [op |-> "toggle", wasActive |-> isViewOnlyMode,
                ev |-> NoEvent, outcome |-> "none"]
    /\ UNCHANGED hostVars

\* The user presses a key, or the host's editor fires an input event.
KeyEvent ==
    \E event \in KeyEvents \cup InputEvents :
        /\ last' = [op |-> "event", wasActive |-> isViewOnlyMode,
                    ev |-> event, outcome |-> dispatchKeyboard(event)]
        /\ UNCHANGED <<progVars, expected, preDom, hostVars>>

Next == Enable \/ Disable \/ Toggle

Spec == Init /\ [][Next]_vars

\* The keyboard policy is independent of the document's content: it is checked
\* on the documents whose elements are all editable.
InitKeys == Init /\ \A e \in Elements : dom[e].ce = "true"

NextKeys == Enable \/ Disable \/ Toggle \/ KeyEvent

SpecKeys == InitKeys /\ [][NextKeys]_vars

-----------------------------------------------------------------------------
\* The Host Integration Shim: load, unload, the three commands, the widget.

\* History kept by every caller of the controller: the fold of the calls, and
\* the document as it was at the last activation.
Track(fold) ==
    /\ expected' = fold
    /\ preDom' = IF ~isViewOnlyMode /\ isViewOnlyMode' THEN dom ELSE preDom

Called(op, posted) ==
    last' = [op |-> op, wasActive |-> isViewOnlyMode, ev |-> NoEvent, outcome |-> posted]

\* The texts of the commands' toasts; "none" when a handler posts nothing.
Toasts == {"View-only mode enabled", "View-only mode disabled", "none"}

\* const status = isViewOnlyMode ? 'enabled' : 'disabled'; `View-only mode ${status}`
statusToast(active) ==
    IF active THEN "View-only mode enabled" ELSE "View-only mode disabled"

\* Mutant: the restore does not consult the remember-state preference.
onActivate_ignoresPreference ==
    IF storage = "enabled"
    THEN enableViewOnlyMode
    ELSE UNCHANGED progVars

\* onActivate, from the read of 'remember-state' to its end (the registrations
\* before it change nothing the model holds).
onActivate ==
    IF settingRemember
    THEN IF storage = "enabled"
         THEN enableViewOnlyMode
         ELSE UNCHANGED progVars
    ELSE UNCHANGED progVars

onDeactivate == disableViewOnlyMode

\* Mutant: the status is computed before the toggle.
toggleViewOnlyCommand_staleStatus(posted) ==
    /\ toggleViewOnlyMode
    /\ posted = statusToast(isViewOnlyMode)

\* action of 'toggle-view-only'; posted is the toast it shows.
toggleViewOnlyCommand(posted) ==
    /\ toggleViewOnlyMode
    /\ posted = statusToast(isViewOnlyMode')

\* action of 'enable-view-only'
enableViewOnlyCommand(posted) ==
    IF ~isViewOnlyMode
    THEN /\ enableViewOnlyMode
         /\ posted = "View-only mode enabled"
    ELSE /\ UNCHANGED progVars
         /\ posted = "none"

\* action of 'disable-view-only'
disableViewOnlyCommand(posted) ==
    IF isViewOnlyMode
    THEN /\ disableViewOnlyMode
         /\ posted = "View-only mode disabled"
    ELSE /\ UNCHANGED progVars
         /\ posted = "none"

\* ViewOnlyWidget: loadSettings, at the completion of its two reads.
loadSettings ==
    /\ wRememberState' = settingRemember
    /\ wLoaded' = TRUE

\* Mutant: the poll reads the state and does not store it.
checkState_noUpdate == UNCHANGED wIsViewOnly

\* ViewOnlyWidget: checkState, the body of the 500 ms interval.
checkState == wIsViewOnly' = isViewOnlyModeActive

\* ViewOnlyWidget: handleToggle; wrote is the value it persists ("none" when
\* it writes nothing), posted the toast it shows.
handleToggle(wrote, posted) ==
    /\ toggleViewOnlyMode
    /\ wIsViewOnly' = isViewOnlyMode'
    /\ IF wRememberState
       THEN /\ storage' = (IF isViewOnlyMode' THEN "enabled" ELSE "disabled")
            /\ wrote = storage'
       ELSE /\ UNCHANGED storage
            /\ wrote = "none"
    /\ posted = statusToast(isViewOnlyMode')

\* Mutant: switching the preference off also switches the mode off.
handleSettingChange_disables(value) ==
    /\ settingRemember' = value
    /\ wRememberState' = value
    /\ storage' = IF ~value THEN "absent" ELSE storage
    /\ IF ~value THEN disableViewOnlyMode ELSE UNCHANGED progVars

\* ViewOnlyWidget: handleSettingChange('remember-state', value)
handleSettingChange(value) ==
    /\ settingRemember' = value
    /\ wRememberState' = value
    /\ storage' = IF ~value THEN "absent" ELSE storage
    /\ UNCHANGED progVars

-----------------------------------------------------------------------------
\* Pointer events.

EDITING_SELECTORS ==
    << "[contenteditable=\"true\"]",
       "[contenteditable]",
       "[data-slate-editor=\"true\"]",
       ".slate-editor",
       ".hierarchy-editor__line",
       ".rem-text",
       ".TreeNode",
       ".rn-editor",
       ".EditorContainer",
       "input",
       "textarea",
       "[role=\"textbox\"]" >>

\* Element.matches(selector) for the selectors of the list.  A target is
\* [isElement, ce, kind]: kind is the one tag, class or role selector the
\* element satisfies, if any, and ce its contenteditable attribute.
matches(target, selector) ==
    IF selector = "[contenteditable=\"true\"]" THEN target.ce = "true"
    ELSE IF selector = "[contenteditable]" THEN target.ce # "absent"
    ELSE target.kind = selector

\* What the model's targets are: a host element of one of these kinds (three
\* of the listed selectors, a class the list does not hold, a plain div) ...
TargetKinds == {".rem-text", "input", "[role=\"textbox\"]", ".rem-bullet", "div"}

\* ... or the document itself, which has no matches method.
MouseTargets ==
    {[isElement |-> TRUE, ce |-> dom[e].ce, kind |-> k] : e \in Elements, k \in TargetKinds}
    \cup {[isElement |-> FALSE, ce |-> "absent", kind |-> "#document"]}

\* const blockMouseEvents = (event) => ...: preventDefault and stopPropagation
\* ("blocked") when the target matches a selector of the list.
blockMouseEvents(target) ==
    IF /\ target.isElement
       /\ \E i \in DOMAIN EDITING_SELECTORS : matches(target, EDITING_SELECTORS[i])
    THEN "blocked"
    ELSE "passed"

\* What the document's capture-phase pointer listeners do with an event: every
\* registered closure runs the same code on it.
dispatchMouse(type, target) ==
    IF \E l \in listeners : l.type = type /\ l.fn = "blockMouseEvents"
    THEN blockMouseEvents(target)
    ELSE "unhandled"

-----------------------------------------------------------------------------
\* The plugin in its host: one document, every preference and persisted value.

CEOrder == <<"true", "false", "absent", "plaintext-only">>

\* A document holding an element of each contenteditable value.
HostDocument ==
    [e \in Elements |-> [ce |-> CEOrder[((e - 1) % Len(CEOrder)) + 1], orig |-> "absent"]]

\* A few of the keyboard events, for the specifications that are not about the
\* keyboard policy.
SampleKeyEvents ==
    {ev \in KeyEvents :
        /\ ev.type = "keydown"
        /\ ev.key \in {"b", "c", "Backspace"}
        /\ ~ev.shiftKey /\ ~ev.altKey /\ ~ev.metaKey}

InitHost ==
    /\ ModuleLoaded
    /\ WidgetMounted
    /\ held = [e \in Elements |-> NoNode]
    /\ dom = HostDocument
    /\ preDom = dom
    /\ settingRemember \in BOOLEAN
    /\ storage \in {"absent", "enabled", "disabled"}
    /\ phase = "loading"

\* declareIndexPlugin: the host runs onActivate.
Activate ==
    /\ phase = "loading"
    /\ onActivate
    /\ phase' = "loaded"
    /\ Track(isViewOnlyMode')
    /\ Called("onActivate", "none")
    /\ UNCHANGED <<settingRemember, storage, wIsViewOnly, wRememberState, wLoaded, steps, held>>

\* declareIndexPlugin: the host runs onDeactivate.
Deactivate ==
    /\ phase = "loaded"
    /\ onDeactivate
    /\ phase' = "unloaded"
    /\ Track(FALSE)
    /\ Called("onDeactivate", "none")
    /\ UNCHANGED <<settingRemember, storage, wIsViewOnly, wRememberState, wLoaded, steps, held>>

\* The user runs a command from the palette.
CommandToggle ==
    /\ phase = "loaded"
    /\ isViewOnlyMode \/ closures < MaxEnables
    /\ \E posted \in Toasts :
          /\ toggleViewOnlyCommand(posted)
          /\ Called("toggle-view-only", posted)
    /\ Track(~expected)
    /\ UNCHANGED hostVars

CommandEnable ==
    /\ phase = "loaded"
    /\ isViewOnlyMode \/ closures < MaxEnables
    /\ \E posted \in Toasts :
          /\ enableViewOnlyCommand(posted)
          /\ Called("enable-view-only", posted)
    /\ Track(TRUE)
    /\ UNCHANGED hostVars

CommandDisable ==
    /\ phase = "loaded"
    /\ \E posted \in Toasts :
          /\ disableViewOnlyCommand(posted)
          /\ Called("disable-view-only", posted)
    /\ Track(FALSE)
    /\ UNCHANGED hostVars

\* The widget's loadSettings completes.
WidgetLoadSettings ==
    /\ phase # "unloaded"
    /\ ~wLoaded
    /\ loadSettings
    /\ Called("loadSettings", "none")
    /\ UNCHANGED <<progVars, expected, preDom,
                   settingRemember, storage, phase, wIsViewOnly, steps, held>>

\* The widget's interval fires.
Poll ==
    /\ phase # "unloaded"
    /\ checkState
    /\ Called("poll", "none")
    /\ UNCHANGED <<progVars, expected, preDom,
                   settingRemember, storage, phase, wRememberState, wLoaded, steps, held>>

\* The user clicks the widget's button.
WidgetToggle ==
    /\ phase = "loaded"
    /\ isViewOnlyMode \/ closures < MaxEnables
    /\ \E wrote \in {"enabled", "disabled", "none"}, posted \in Toasts :
          /\ handleToggle(wrote, posted)
          /\ last' = [op |-> "handleToggle", wasActive |-> isViewOnlyMode,
                      ev |-> NoEvent, outcome |-> posted, wrote |-> wrote]
    /\ Track(~expected)
    /\ UNCHANGED <<settingRemember, phase, wRememberState, wLoaded, steps, held>>

\* The user ticks or unticks the widget's remember-state checkbox.
WidgetSettingChange ==
    /\ phase = "loaded"
    /\ \E value \in BOOLEAN : handleSettingChange(value)
    /\ Called("handleSettingChange", "none")
    /\ Track(expected)
    /\ UNCHANGED <<phase, wIsViewOnly, wLoaded, steps, held>>

\* The preference is changed in the host's own settings page.
HostSettingChange ==
    /\ settingRemember' = ~settingRemember
    /\ Called("hostSetting", "none")
    /\ UNCHANGED <<progVars, expected, preDom,
                   storage, phase, wIsViewOnly, wRememberState, wLoaded, steps, held>>

\* The user presses, releases, clicks or double-clicks on a target.
MouseEvent ==
    \E type \in MouseEventTypes, target \in MouseTargets :
        /\ last' = [op |-> "mouse", wasActive |-> isViewOnlyMode,
                    ev |-> [type |-> type, target |-> target],
                    outcome |-> dispatchMouse(type, target)]
        /\ UNCHANGED <<progVars, expected, preDom, hostVars>>

SampleKeyEvent ==
    \E event \in SampleKeyEvents \cup InputEvents :
        /\ last' = [op |-> "event", wasActive |-> isViewOnlyMode,
                    ev |-> event, outcome |-> dispatchKeyboard(event)]
        /\ UNCHANGED <<progVars, expected, preDom, hostVars>>

NextHost ==
    \/ Activate
    \/ Deactivate
    \/ CommandToggle
    \/ CommandEnable
    \/ CommandDisable
    \/ WidgetLoadSettings
    \/ Poll
    \/ WidgetToggle
    \/ WidgetSettingChange
    \/ HostSettingChange
    \/ MouseEvent
    \/ SampleKeyEvent

SpecHost == InitHost /\ [][NextHost]_vars

\* The widget's interval is a setInterval of 500 ms: while the widget is
\* mounted its callback keeps being run.
SpecPoll == InitHost /\ [][NextHost]_vars /\ WF_vars(Poll)

\* A session in which the remember-state preference is true from the load on
\* and is never changed.
InitRemember == InitHost /\ settingRemember

NextRemember ==
    \/ Activate
    \/ Deactivate
    \/ CommandToggle
    \/ CommandEnable
    \/ CommandDisable
    \/ WidgetLoadSettings
    \/ Poll
    \/ WidgetToggle

SpecRemember == InitRemember /\ [][NextRemember]_vars

-----------------------------------------------------------------------------
\* The host re-rendering its editor while the plugin runs.  The plugin keeps
\* no reference to an element: disableContentEditable and enableContentEditable
\* each walk document.querySelectorAll(...) once, when they are called, and
\* see the nodes that are in the document at that moment.

\* The slots of the document whose node the host re-renders.
Rendered == 1..NumRendered

\* What the host leaves in a slot whose node it has taken out.
Placeholder == [ce |-> "absent", orig |-> "absent"]

\* A node as the host renders it anew: editable, with no attribute of the plugin.
FreshEditable == [ce |-> "true", orig |-> "absent"]

HostStep(op) ==
    /\ last' = [op |-> op, wasActive |-> isViewOnlyMode, ev |-> NoEvent,
                outcome |-> "none"]
    /\ UNCHANGED <<isViewOnlyMode, styleElement, indicatorElement, keydownHandler,
                   headStyles, bodyIndicators, bodyClass, listeners, closures,
                   expected, preDom,
                   settingRemember, storage, phase, wIsViewOnly, wRememberState,
                   wLoaded, steps>>

\* The host takes a node out of the document and keeps it.
HostDetach ==
    \E e \in Rendered :
        /\ held[e] = NoNode
        /\ dom[e] # Placeholder
        /\ held' = [held EXCEPT ![e] = dom[e]]
        /\ dom' = [dom EXCEPT ![e] = Placeholder]
        /\ HostStep("hostDetach")

\* The host puts a node it kept back into the document.
HostReattach ==
    \E e \in Rendered :
        /\ held[e] # NoNode
        /\ dom' = [dom EXCEPT ![e] = held[e]]
        /\ held' = [held EXCEPT ![e] = NoNode]
        /\ HostStep("hostReattach")

\* The host's render writes contenteditable="true" on a node again; the
\* plugin's data-original-contenteditable attribute is not the host's and stays.
HostRewrite ==
    \E e \in Rendered :
        /\ dom[e] # Placeholder
        /\ dom[e].ce # "true"
        /\ dom' = [dom EXCEPT ![e].ce = "true"]
        /\ HostStep("hostRewrite")
        /\ UNCHANGED held

\* The host replaces the node of a slot by a newly created editable node.
HostCreate ==
    \E e \in Rendered :
        /\ dom[e] # FreshEditable
        /\ dom' = [dom EXCEPT ![e] = FreshEditable]
        /\ HostStep("hostCreate")
        /\ UNCHANGED held

InitRender == Init /\ dom = HostDocument

NextRender ==
    \/ Enable
    \/ Disable
    \/ Toggle
    \/ HostDetach
    \/ HostReattach
    \/ HostRewrite
    \/ HostCreate

SpecRender == InitRender /\ [][NextRender]_vars

-----------------------------------------------------------------------------
\* enableViewOnlyMode and disableViewOnlyMode statement by statement, in a
\* document whose head or body may be unavailable (null): a statement that
\* dereferences the missing node raises a TypeError, which nothing in the two
\* functions catches, so the call ends there.

\* The program's variables as one record.
ProgState ==
    [isViewOnlyMode |-> isViewOnlyMode, styleElement |-> styleElement,
     indicatorElement |-> indicatorElement, keydownHandler |-> keydownHandler,
     headStyles |-> headStyles, bodyIndicators |-> bodyIndicators,
     bodyClass |-> bodyClass, dom |-> dom, listeners |-> listeners,
     closures |-> closures]

Install(r) ==
    /\ isViewOnlyMode' = r.isViewOnlyMode
    /\ styleElement' = r.styleElement
    /\ indicatorElement' = r.indicatorElement
    /\ keydownHandler' = r.keydownHandler
    /\ headStyles' = r.headStyles
    /\ bodyIndicators' = r.bodyIndicators
    /\ bodyClass' = r.bodyClass
    /\ dom' = r.dom
    /\ listeners' = r.listeners
    /\ closures' = r.closures

\* The documents a call may find: [head, body], each available or not.
Documents == [head : BOOLEAN, body : BOOLEAN]

\* The statements of enableViewOnlyMode after its guard, in source order.
enableProgram ==
    << "isViewOnlyMode = true",
       "injectViewOnlyStyles",
       "classList.add",
       "createViewOnlyIndicator",
       "disableContentEditable",
       "addKeyboardListeners",
       "addMouseListeners" >>

\* Mutant: the protections are released in the reverse of the order of
\* their acquisition.
disableProgram_reversed ==
    << "isViewOnlyMode = false",
       "removeKeyboardListeners",
       "enableContentEditable",
       "removeViewOnlyIndicator",
       "classList.remove",
       "removeViewOnlyStyles" >>

\* The statements of disableViewOnlyMode after its guard, in source order.
disableProgram ==
    << "isViewOnlyMode = false",
       "removeViewOnlyStyles",
       "removeViewOnlyIndicator",
       "classList.remove",
       "enableContentEditable",
       "removeKeyboardListeners" >>

\* One statement on state r in document doc: the state it leaves and whether
\* it raised.
exec(stmt, r, doc) ==
    CASE stmt = "isViewOnlyMode = true" ->
           [state |-> [r EXCEPT !.isViewOnlyMode = TRUE], threw |-> FALSE]
      [] stmt = "injectViewOnlyStyles" ->
           IF r.styleElement THEN [state |-> r, threw |-> FALSE]
           ELSE IF doc.head
           THEN [state |-> [r EXCEPT !.styleElement = TRUE,
                                     !.headStyles = r.headStyles + 1],
                 threw |-> FALSE]
           \* styleElement is assigned before document.head.appendChild raises
           ELSE [state |-> [r EXCEPT !.styleElement = TRUE], threw |-> TRUE]
      [] stmt = "classList.add" ->
           IF doc.body
           THEN [state |-> [r EXCEPT !.bodyClass = TRUE], threw |-> FALSE]
           ELSE [state |-> r, threw |-> TRUE]
      [] stmt = "createViewOnlyIndicator" ->
           IF r.indicatorElement THEN [state |-> r, threw |-> FALSE]
           ELSE IF doc.body
           THEN [state |-> [r EXCEPT !.indicatorElement = TRUE,
                                     !.bodyIndicators = r.bodyIndicators + 1],
                 threw |-> FALSE]
           ELSE [state |-> [r EXCEPT !.indicatorElement = TRUE], threw |-> TRUE]
      [] stmt = "disableContentEditable" ->
           [state |-> [r EXCEPT !.dom =
                          [e \in Elements |->
                              IF r.dom[e].ce = "true"
                              THEN [ce |-> "false", orig |-> "true"]
                              ELSE r.dom[e]]],
            threw |-> FALSE]
      [] stmt = "addKeyboardListeners" ->
           [state |-> [r EXCEPT
                          !.keydownHandler = "preventEditingShortcuts",
                          !.listeners =
                              r.listeners \cup
                              {[type |-> t, fn |-> "preventEditingShortcuts", id |-> 0] :
                                  t \in KeyboardEventTypes}],
            threw |-> FALSE]
      [] stmt = "addMouseListeners" ->
           [state |-> [r EXCEPT
                          !.closures = r.closures + 1,
                          !.listeners =
                              r.listeners \cup
                              {[type |-> t, fn |-> "blockMouseEvents",
                                id |-> r.closures + 1] : t \in MouseEventTypes}],
            threw |-> FALSE]
      [] stmt = "isViewOnlyMode = false" ->
           [state |-> [r EXCEPT !.isViewOnlyMode = FALSE], threw |-> FALSE]
      [] stmt = "removeViewOnlyStyles" ->
           \* Element.remove() on an element that was never attached does nothing
           IF r.styleElement
           THEN [state |-> [r EXCEPT !.styleElement = FALSE,
                                     !.headStyles = IF r.headStyles > 0
                                                    THEN r.headStyles - 1 ELSE 0],
                 threw |-> FALSE]
           ELSE [state |-> r, threw |-> FALSE]
      [] stmt = "removeViewOnlyIndicator" ->
           IF r.indicatorElement
           THEN [state |-> [r EXCEPT !.indicatorElement = FALSE,
                                     !.bodyIndicators = IF r.bodyIndicators > 0
                                                        THEN r.bodyIndicators - 1 ELSE 0],
                 threw |-> FALSE]
           ELSE [state |-> r, threw |-> FALSE]
      [] stmt = "classList.remove" ->
           IF doc.body
           THEN [state |-> [r EXCEPT !.bodyClass = FALSE], threw |-> FALSE]
           ELSE [state |-> r, threw |-> TRUE]
      [] stmt = "enableContentEditable" ->
           [state |-> [r EXCEPT !.dom =
                          [e \in Elements |->
                              IF r.dom[e].orig = "true"
                              THEN [ce |-> "true", orig |-> "absent"]
                              ELSE r.dom[e]]],
            threw |-> FALSE]
      [] stmt = "removeKeyboardListeners" ->
           IF r.keydownHandler # "null"
           THEN [state |-> [r EXCEPT
                               !.keydownHandler = "null",
                               !.listeners =
                                   r.listeners \
                                   {[type |-> t, fn |-> r.keydownHandler, id |-> 0] :
                                       t \in KeyboardEventTypes}],
                 threw |-> FALSE]
           ELSE [state |-> r, threw |-> FALSE]

\* The statements of prog from the i-th on, until one raises: the state left,
\* the statements attempted, and whether the last of them raised.
RECURSIVE run(_, _, _, _, _)
run(prog, i, r, doc, attempted) ==
    IF i > Len(prog)
    THEN [state |-> r, steps |-> attempted, threw |-> FALSE]
    ELSE LET res == exec(prog[i], r, doc)
         IN  IF res.threw
             THEN [state |-> res.state, steps |-> Append(attempted, prog[i]),
                   threw |-> TRUE]
             ELSE run(prog, i + 1, res.state, doc, Append(attempted, prog[i]))

enableViewOnlyModeIn(doc) ==
    IF isViewOnlyMode
    THEN [state |-> ProgState, steps |-> << >>, threw |-> FALSE]
    ELSE run(enableProgram, 1, ProgState, doc, << >>)

disableViewOnlyModeIn(doc) ==
    IF ~isViewOnlyMode
    THEN [state |-> ProgState, steps |-> << >>, threw |-> FALSE]
    ELSE run(disableProgram, 1, ProgState, doc, << >>)

toggleViewOnlyModeIn(doc) ==
    IF isViewOnlyMode
    THEN disableViewOnlyModeIn(doc)
    ELSE enableViewOnlyModeIn(doc)

\* A call of op whose result is res.
Finish(op, res) ==
    /\ Install(res.state)
    /\ steps' = res.steps
    /\ last' = [op |-> op, wasActive |-> isViewOnlyMode, ev |-> NoEvent,
                outcome |-> IF res.threw THEN "threw" ELSE "returned"]
    /\ Track(isViewOnlyMode')
    /\ UNCHANGED <<settingRemember, storage, phase, wIsViewOnly, wRememberState,
                   wLoaded, held>>

EnableIn ==
    /\ isViewOnlyMode \/ closures < MaxEnables
    /\ \E doc \in Documents : Finish("enable", enableViewOnlyModeIn(doc))

DisableIn ==
    \E doc \in Documents : Finish("disable", disableViewOnlyModeIn(doc))

ToggleIn ==
    /\ isViewOnlyMode \/ closures < MaxEnables
    /\ \E doc \in Documents : Finish("toggle", toggleViewOnlyModeIn(doc))

NextSteps == EnableIn \/ DisableIn \/ ToggleIn

SpecSteps == Init /\ [][NextSteps]_vars

-----------------------------------------------------------------------------
\* Vocabulary of the properties.

Active(b) == IF b THEN 1 ELSE 0

\* The last step was a call that took the mode from active to inactive.
Deactivated ==
    last.op \in {"disable", "toggle"} /\ last.wasActive

\* preventDefault (with stopPropagation) was invoked on the last delivered event.
Prevented == last.outcome = "blocked"

\* A single printable character with no modifier pressed.
TypedChar(ev) ==
    /\ ev.hasKey
    /\ Len(ev.key) = 1
    /\ ~ev.ctrlKey /\ ~ev.shiftKey /\ ~ev.altKey /\ ~ev.metaKey

NavigationKeys ==
    {"ArrowLeft", "ArrowRight", "ArrowUp", "ArrowDown",
     "Home", "End", "PageUp", "PageDown"}

\* The always-allowed events: copy, select-all, find and find-replace as the
\* Ctrl chords (with c, a, f also as the bare Cmd chords), find-next (F3),
\* Escape, and the navigation keys under every combination of modifiers.
AlwaysAllowed(ev) ==
    /\ ev.hasKey
    /\ \/ ev.ctrlKey /\ ev.key \in {"c", "a", "f", "h"}
       \/ ev.metaKey /\ ~ev.ctrlKey /\ ~ev.altKey /\ ev.key \in {"c", "a", "f"}
       \/ ev.key \in {"F3", "Escape"}
       \/ ev.key \in NavigationKeys

\* The deny set: typing, the six named keys (the space bar reports the key
\* " "), the undo/redo and cut/paste chords, and every ctrl, alt or meta
\* combination that is not always allowed.
InDenySet(ev) ==
    /\ ev.hasKey
    /\ ~AlwaysAllowed(ev)
    /\ \/ TypedChar(ev)
       \/ ev.key \in {"Backspace", "Delete", "Enter", "Tab", "Insert", " "}
       \/ ev.ctrlKey /\ ev.key \in {"z", "y", "Z", "x", "v"}
       \/ ev.ctrlKey \/ ev.altKey \/ ev.metaKey

-----------------------------------------------------------------------------
\* C1: after every sequence of enable, disable and toggle calls from the
\* inactive state, isActive() equals the fold of the sequence (enable -> true,
\* disable -> false, toggle -> negation).
C1_IsActiveIsFold == isViewOnlyModeActive = expected

\* A toggle has deactivated the mode in a second or later cycle.
C1_Witness ==
    last.op = "toggle" /\ last.wasActive /\ ~isViewOnlyMode /\ closures >= 2

\* C2: between calls the four transient resources (style block, indicator,
\* suspended-editable marks, capture-phase listeners) are all present with the
\* mode active, or all absent with the mode inactive.
C2_AllPresentOrAllAbsent ==
    \/ /\ isViewOnlyMode
       /\ headStyles >= 1
       /\ bodyIndicators >= 1
       /\ \A e \in Elements : preDom[e].ce = "true" => dom[e].orig = "true"
       /\ listeners # {}
    \/ /\ ~isViewOnlyMode
       /\ headStyles = 0
       /\ bodyIndicators = 0
       /\ \A e \in Elements : dom[e].orig = "absent"
       /\ listeners = {}

\* C3: the number of injected style blocks and the number of indicator
\* elements are each exactly 1 while the mode is active and exactly 0 while it
\* is inactive.
C3_OneStyleOneIndicatorIffActive ==
    /\ headStyles = Active(isViewOnlyMode)
    /\ bodyIndicators = Active(isViewOnlyMode)

\* The mode is active for the second time or later, with one block and one
\* indicator.
C3_Witness ==
    isViewOnlyMode /\ closures >= 2 /\ headStyles = 1 /\ bodyIndicators = 1

\* C4: the set of capture-phase listeners attached by the plugin is non-empty
\* iff the mode is active; after a deactivation none remains, for the keyboard
\* events and for the pointer events alike.
C4_ListenersIffActive ==
    /\ (listeners # {}) <=> isViewOnlyMode
    /\ Deactivated =>
          \A t \in KeyboardEventTypes \cup MouseEventTypes :
              \A l \in listeners : l.type # t

\* C5: enable() on an active mode and disable() on an inactive mode leave the
\* whole state of the plugin and of the document unchanged.
C5_AbsorbedCallsChangeNothing ==
    [][ (\/ last'.op = "enable" /\ isViewOnlyMode
         \/ last'.op = "disable" /\ ~isViewOnlyMode)
        => UNCHANGED progVars ]_vars

\* enable() has been called on an active mode, in a document with an editable
\* element.
C5_Witness ==
    /\ last.op = "enable" /\ last.wasActive /\ isViewOnlyMode
    /\ \E e \in Elements : dom[e].orig = "true"

\* C6: after enable() followed by disable(), every element's contenteditable
\* attribute has the value it had before enable() (true, false, absent or
\* another value), no marker attribute remains, and no element that was not
\* editable has been made editable.
C6_EditableRoundTrip ==
    Deactivated =>
        \A e \in Elements :
            /\ dom[e].ce = preDom[e].ce
            /\ dom[e].orig = "absent"
            /\ preDom[e].ce # "true" => dom[e].ce # "true"

\* The mode has been deactivated in a document that held an editable element,
\* a disabled one and one with another value at activation.
C6_Witness ==
    /\ Deactivated
    /\ \E e1, e2, e3 \in Elements :
          /\ preDom[e1].ce = "true" /\ dom[e1].ce = "true"
          /\ preDom[e2].ce = "false"
          /\ preDom[e3].ce \in {"absent", "plaintext-only"}

\* C7: a keyboard event that matches at least one allow condition and at least
\* one deny condition is not prevented and its propagation is not stopped: the
\* allow-list is evaluated first and wins.
C7_AllowWins ==
    (/\ last.op = "event"
     /\ last.ev.hasKey
     /\ some(allowedShortcuts(last.ev))
     /\ blocks(last.ev))
    => ~Prevented

\* The active handler has let through an event matching both lists.
C7_Witness ==
    /\ last.op = "event" /\ last.wasActive
    /\ last.ev.hasKey
    /\ some(allowedShortcuts(last.ev))
    /\ blocks(last.ev)
    /\ last.outcome = "allowed"

\* C8: a key event for a single printable character with no modifier is
\* prevented when delivered while the mode is active, and is not prevented
\* when delivered while the mode is inactive, initially or after any history.
C8_TypingSuppressedIffActive ==
    (last.op = "event" /\ TypedChar(last.ev))
    => (Prevented <=> last.wasActive)

\* A typed character has been prevented while the mode was active.
C8_Witness ==
    /\ last.op = "event" /\ TypedChar(last.ev)
    /\ last.wasActive /\ Prevented

\* C9: the keyboard listener never prevents an always-allowed event: copy,
\* select-all, find, find-next, find-replace, Escape, and every navigation key
\* under every combination of modifiers.
C9_AlwaysAllowedNeverPrevented ==
    (last.op = "event" /\ AlwaysAllowed(last.ev)) => ~Prevented

\* The active handler has let through a page-navigation key pressed with Alt.
C9_Witness ==
    /\ last.op = "event" /\ last.wasActive
    /\ last.ev.key = "PageDown" /\ last.ev.altKey
    /\ last.outcome = "allowed"

\* C10: while the mode is active the keyboard listener prevents every event of
\* the deny set.
C10_DenySetBlocked ==
    (last.op = "event" /\ last.wasActive /\ InDenySet(last.ev)) => Prevented

\* C11: after a fresh load has completed with no user action, isActive() is
\* true iff the remember-state preference is true and the persisted value is
\* "enabled".
C11_RestoredIffRememberedEnabled ==
    last.op = "onActivate" =>
        (isViewOnlyModeActive <=> (settingRemember /\ storage = "enabled"))

\* The load has restored the mode from a remembered "enabled".
C11_Witness ==
    /\ last.op = "onActivate" /\ phase = "loaded"
    /\ isViewOnlyMode /\ settingRemember /\ storage = "enabled"

\* C12: after onDeactivate, whatever the state before it and the value of
\* remember-state, the mode is inactive and no protection remains: no style
\* block, no indicator, no marker class, no marked element, no listener.
C12_UnloadLeavesNothing ==
    last.op = "onDeactivate" =>
        /\ ~isViewOnlyMode
        /\ headStyles = 0
        /\ bodyIndicators = 0
        /\ ~bodyClass
        /\ \A e \in Elements : dom[e].orig = "absent"
        /\ listeners = {}

CommandOps == {"toggle-view-only", "enable-view-only", "disable-view-only"}

\* C13, as stated: every invocation of each of the three commands, from either
\* mode state, posts a notification, and the state it reports is isActive()
\* after the command.
C13_EveryCommandPosts ==
    last.op \in CommandOps => last.outcome = statusToast(isViewOnlyModeActive)

\* C13, amended: toggle-view-only always posts; enable-view-only posts iff the
\* mode was inactive and disable-view-only iff it was active; a notification
\* that is posted reports isActive() after the command.
C13_CommandPostsOnChange ==
    /\ last.op = "toggle-view-only" => last.outcome # "none"
    /\ last.op = "enable-view-only" => (last.outcome # "none" <=> ~last.wasActive)
    /\ last.op = "disable-view-only" => (last.outcome # "none" <=> last.wasActive)
    /\ (last.op \in CommandOps /\ last.outcome # "none")
          => last.outcome = statusToast(isViewOnlyModeActive)

\* toggle-view-only has deactivated the mode and reported it.
C13_Witness ==
    /\ last.op = "toggle-view-only" /\ last.wasActive
    /\ last.outcome = "View-only mode disabled" /\ ~isViewOnlyMode

\* C15: whenever the state shown by the mounted widget differs from the mode,
\* it eventually equals it (or the plugin is unloaded), under fairness of the
\* poll; and the poll never changes the mode.
C15_WidgetEventuallyInSync ==
    /\ (phase # "unloaded" /\ wIsViewOnly # isViewOnlyMode)
          ~> (wIsViewOnly = isViewOnlyMode \/ phase = "unloaded")
    /\ [][last'.op = "poll" => UNCHANGED progVars]_vars

\* The poll has brought the widget in line with a mode changed by a command.
C15_Witness ==
    /\ last.op = "poll" /\ last.wasActive
    /\ wIsViewOnly /\ isViewOnlyMode /\ closures >= 1

\* C16: every toggle through the widget while the remember-state preference is
\* true writes "enabled" or "disabled" as the mode is after it, also before the
\* widget's settings load has completed, and writes nothing while it is false.
C16_ToggleWritesIffRemember ==
    last.op = "handleToggle" =>
        /\ settingRemember =>
              last.wrote = (IF isViewOnlyMode THEN "enabled" ELSE "disabled")
        /\ ~settingRemember => last.wrote = "none"

\* C17: the keyboard listener, the pointer listener, the widget's poll and
\* settings load, and preference changes leave the active flag and the
\* transient resources unchanged.
C17_OnlyControllerChangesMode ==
    [][ last'.op \in {"event", "mouse", "poll", "loadSettings",
                      "handleSettingChange", "hostSetting"}
        => UNCHANGED progVars ]_vars

\* The remember-state preference has been switched off in the widget while the
\* mode was active, and the mode is still active.
C17_Witness ==
    /\ last.op = "handleSettingChange" /\ last.wasActive
    /\ ~settingRemember /\ isViewOnlyMode /\ listeners # {}

\* C20: a press, release, click or double-click is blocked iff the mode is
\* active at delivery and the target matches one of the editable-region
\* selectors; delivered while inactive it is never blocked.
C20_PointerBlockedIffActive ==
    last.op = "mouse" =>
        ((last.outcome = "blocked")
            <=> (last.wasActive /\ blockMouseEvents(last.ev.target) = "blocked"))

-----------------------------------------------------------------------------
\* Vocabulary of the stepwise properties.

\* The protection a statement acquires or releases; "flag" for the assignments
\* to isViewOnlyMode.
resourceOf(stmt) ==
    CASE stmt \in {"injectViewOnlyStyles", "removeViewOnlyStyles"} -> "style"
      [] stmt \in {"classList.add", "classList.remove"} -> "class"
      [] stmt \in {"createViewOnlyIndicator", "removeViewOnlyIndicator"} -> "indicator"
      [] stmt \in {"disableContentEditable", "enableContentEditable"} -> "attributes"
      [] stmt \in {"addKeyboardListeners", "addMouseListeners",
                   "removeKeyboardListeners"} -> "listeners"
      [] OTHER -> "flag"

\* The protections in the order the statements of a call touch them.
RECURSIVE ResourceOrder(_)
ResourceOrder(stmts) ==
    IF stmts = << >> THEN << >>
    ELSE LET rest == ResourceOrder(Tail(stmts))
             res == resourceOf(Head(stmts))
         IN  IF res = "flag" \/ (rest # << >> /\ Head(rest) = res)
             THEN rest
             ELSE <<res>> \o rest

Reverse(seq) == [i \in 1..Len(seq) |-> seq[Len(seq) + 1 - i]]

ApplyOrder == <<"style", "class", "indicator", "attributes", "listeners">>

\* The last call ran the statements of enableViewOnlyMode / disableViewOnlyMode.
Activating == last.op \in {"enable", "toggle"} /\ ~last.wasActive
Deactivating == last.op \in {"disable", "toggle"} /\ last.wasActive

\* A protection other than the pointer listeners is in place.
SomeProtection ==
    \/ headStyles > 0
    \/ bodyIndicators > 0
    \/ bodyClass
    \/ \E e \in Elements : dom[e].orig = "true"
    \/ \E l \in listeners : l.fn = "preventEditingShortcuts"

\* C14: if a step of enable() fails, the remaining steps are still attempted,
\* no exception escapes enable(), and the mode is never left active with no
\* protection in place.
C14_EnableAbsorbsFailures ==
    Activating =>
        /\ last.outcome # "threw"
        /\ steps = enableProgram
        /\ isViewOnlyMode => (SomeProtection \/ listeners # {})

\* C18: in disable() the protections are released first and the flag is
\* cleared only after that, so that a disable that stops part-way leaves the
\* mode active while a protection is still in place.
C18_FlagClearedAfterRevert ==
    Deactivating =>
        /\ \A i \in DOMAIN steps :
              steps[i] = "isViewOnlyMode = false" => i = Len(disableProgram)
        /\ (last.outcome = "threw" /\ SomeProtection) => isViewOnlyMode

-----------------------------------------------------------------------------
\* The listeners the plugin has attached for an event type.
ListenersOn(type) == {l \in listeners : l.type = type}

\* C21: every listener registration of enable() is matched by a removal in the
\* next disable(): after any number of enable/disable cycles there is at most
\* one listener of the plugin per event type, and the number does not grow
\* with the cycles.
C21_AtMostOneListenerPerType ==
    \A t \in KeyboardEventTypes \cup MouseEventTypes :
        Cardinality(ListenersOn(t)) <= 1

\* C24: for every event type the keyboard handler is registered on (keydown,
\* keypress, input), also for events that carry no key field, the handler
\* runs to completion without raising and takes its allow/deny decision.
C24_HandlerNeverRaises ==
    (last.op = "event" /\ last.wasActive)
    => last.outcome \in {"allowed", "blocked", "passed"}

\* The calls through which the user changes the mode in a session.
UserTransitions == CommandOps \cup {"handleToggle"}

\* C25: with remember-state true throughout, after every transition made by
\* the widget toggle or by a command the persisted value agrees with
\* isActive(), so that the next load restores the mode the session ended in.
C25_PersistedAgreesWithMode ==
    (last.op \in UserTransitions /\ last.wasActive # isViewOnlyMode)
    => ((storage = "enabled") <=> isViewOnlyModeActive)

\* The nodes of the host: those in the document and those it keeps.
HostNodes ==
    {dom[e] : e \in Elements} \cup ({held[e] : e \in Elements} \ {NoNode})

\* C22: whatever the host has detached, re-attached or rewritten between
\* enable() and disable(), after disable() no node of the host carries the
\* marker attribute, in the document or out of it (a node the plugin forced
\* non-editable is one that carries the marker).
C22_SuspendedSetDrained ==
    Deactivated => \A n \in HostNodes : n.orig # "true"

\* C23: while the mode is active no element of the document is enabled for
\* direct editing, whether it was present at activation or was created,
\* recreated or re-rendered by the host afterwards.
C23_NoEditableWhileActive ==
    isViewOnlyMode => \A e \in Elements : dom[e].ce # "true"

====
